---------------------------- MODULE Spec2Model ----------------------------
(***************************************************************************)
(* behi22/visitor-classifier: the /classify endpoint of src/app.py and the *)
(* content-to-question pipeline behind it (generate_questions,             *)
(* filter_questions, generate_dynamic_options, categorize_fallback,        *)
(* store_questions_in_db).                                                 *)
(*                                                                         *)
(* A Python str the program looks into (substring tests, startswith,       *)
(* endswith, strip, lower, concatenation) is a sequence of one-character   *)
(* strings.  An option label, which the program only copies, is a TLA+     *)
(* string.  None is the one-element sequence NONE.                         *)
(***************************************************************************)
EXTENDS Integers, Sequences, FiniteSets

NONE == <<"<None>">>

\* a local variable not assigned yet
UNSET == <<"<unset>">>

(***************************************************************************)
(* Python built-ins used by src/app.py.                                    *)
(***************************************************************************)
UpperAlpha == <<"A","B","C","D","E","F","G","H","I","J","K","L","M","N","O","P","Q","R","S","T","U","V","W","X","Y","Z">>
LowerAlpha == <<"a","b","c","d","e","f","g","h","i","j","k","l","m","n","o","p","q","r","s","t","u","v","w","x","y","z">>

LowerChar(c) ==
    IF \E i \in DOMAIN UpperAlpha : UpperAlpha[i] = c
    THEN LowerAlpha[CHOOSE i \in DOMAIN UpperAlpha : UpperAlpha[i] = c]
    ELSE c

lower(s) == [i \in 1..Len(s) |-> LowerChar(s[i])]

IsSpace(c) == c \in {" ", "\t", "\n"}

RECURSIVE lstrip(_)
lstrip(s) == IF s = << >> \/ ~IsSpace(Head(s)) THEN s ELSE lstrip(Tail(s))

RECURSIVE rstrip(_)
rstrip(s) ==
    IF s = << >> \/ ~IsSpace(s[Len(s)]) THEN s ELSE rstrip(SubSeq(s, 1, Len(s) - 1))

strip(s) == rstrip(lstrip(s))

startswith(s, prefix) ==
    Len(s) >= Len(prefix) /\ SubSeq(s, 1, Len(prefix)) = prefix

endswith(s, suffix) ==
    Len(s) >= Len(suffix) /\ SubSeq(s, Len(s) - Len(suffix) + 1, Len(s)) = suffix

\* sub in s
contains(s, sub) ==
    \E i \in 0..(Len(s) - Len(sub)) : SubSeq(s, i + 1, i + Len(sub)) = sub

\* " ".join(parts)
RECURSIVE join(_)
join(parts) ==
    IF parts = << >> THEN << >>
    ELSE IF Len(parts) = 1 THEN parts[1]
    ELSE parts[1] \o <<" ">> \o join(Tail(parts))

\* not x, for a str or None
Falsy(x) == x = NONE \/ x = << >>

Range(s) == {s[i] : i \in DOMAIN s}

\* list(set(xs)): the elements without repetition, in an order of the set's own
RECURSIVE SetToList(_)
SetToList(S) ==
    IF S = {} THEN << >>
    ELSE LET x == CHOOSE y \in S : TRUE IN <<x>> \o SetToList(S \ {x})

\* d.get(key, default)
Get(d, key, default) == IF key \in DOMAIN d THEN d[key] ELSE default

(***************************************************************************)
(* random: randint(a, b) draws from a..b, both ends included.  The draws   *)
(* the model follows are the ends of the range; IdSamples also holds the   *)
(* two values next to the range, which no draw of randint can give.        *)
(***************************************************************************)
IdLow == 1000
IdHigh == 9999

\* randint with the upper end one too far
randintPastHigh(a, b) == a..(b + 1)

randint(a, b) == a..b

IdSamples == {IdLow - 1, IdLow, IdHigh, IdHigh + 1}

IdDraws == randint(IdLow, IdHigh) \cap IdSamples

\* random.shuffle: every permutation of the positions
Shuffles(n) ==
    {p \in [1..n -> 1..n] : \A i, j \in 1..n : p[i] = p[j] => i = j}

Permute(xs, p) == [i \in 1..Len(xs) |-> xs[p[i]]]

(***************************************************************************)
(* filter_questions                                                        *)
(***************************************************************************)
MinOptions == 2

BoilerplateA == <<"T","e","r","m","s"," ","a","n","d"," ","C","o","n","d","i","t","i","o","n","s">>
BoilerplateB == <<"P","r","i","v","a","c","y"," ","P","o","l","i","c","y">>
BoilerplateC == <<"C","A"," ","N","o","t","i","c","e">>
BoilerplateD == <<"s","e","e"," ","o","u","r">>

\* filter_questions without its last test (lines 216-217)
filter_questionsNoPhraseTest(question_data) ==
    LET question == Get(question_data, "question", << >>)
        options  == Get(question_data, "options", << >>)
    IN  IF question = << >> \/ options = << >> THEN FALSE
        ELSE IF Len(options) < MinOptions THEN FALSE
        ELSE IF endswith(question, <<".">>) \/ ~endswith(question, <<"?">>) THEN FALSE
        ELSE IF contains(question, BoilerplateA) \/ contains(question, BoilerplateB)
             THEN FALSE
        ELSE TRUE

filter_questions(question_data) ==
    LET question == Get(question_data, "question", << >>)
        options  == Get(question_data, "options", << >>)
    IN  IF question = << >> \/ options = << >> THEN FALSE
        ELSE IF Len(options) < MinOptions THEN FALSE
        ELSE IF endswith(question, <<".">>) \/ ~endswith(question, <<"?">>) THEN FALSE
        ELSE IF contains(question, BoilerplateA) \/ contains(question, BoilerplateB)
             THEN FALSE
        ELSE IF \E phrase \in {BoilerplateC, BoilerplateD} : contains(question, phrase)
             THEN FALSE
        ELSE TRUE

(***************************************************************************)
(* generate_dynamic_options                                                *)
(***************************************************************************)
generate_dynamic_options(topic, question_type) ==
    IF question_type = "opinion" THEN <<"Positive", "Negative", "Neutral">>
    ELSE IF question_type = "importance"
         THEN <<"Not at all", "Somewhat", "Very important">>
    ELSE IF question_type = "fit"
         THEN <<"Technology", "Science", "Business", "Other">>
    ELSE IF question_type = "interest" THEN <<"1", "2", "3", "4", "5">>
    ELSE IF question_type = "agreement" THEN <<"Agree", "Disagree", "Not Sure">>
    ELSE IF question_type = "challenges"
         THEN IF contains(lower(topic), <<"t","e","c","h","n","o","l","o","g","y">>)
              THEN <<"High cost", "Implementation difficulties", "Resistance to change">>
              ELSE IF contains(lower(topic), <<"e","v","e","n","t">>)
              THEN <<"Unexpected consequences", "Lack of preparation", "Public backlash">>
              ELSE IF contains(lower(topic), <<"p","r","o","d","u","c","t">>)
              THEN <<"Supply chain issues", "Quality control", "Market competition">>
              ELSE <<"Time constraints", "Resource limitations", "Knowledge gaps">>
    ELSE <<"Agree", "Disagree", "Not Sure">>

(***************************************************************************)
(* categorize_fallback                                                     *)
(***************************************************************************)
categorize_fallback(text) ==
    IF contains(lower(text), <<"e","v","e","n","t">>)
    THEN << <<"k","e","y"," ","f","a","c","t","s"," ","a","b","o","u","t"," ","t","h","i","s"," ","e","v","e","n","t">>, <<"i","m","p","a","c","t","s"," ","o","f"," ","t","h","i","s"," ","e","v","e","n","t"," ","o","n"," ","t","h","e"," ","i","n","d","u","s","t","r","y">> >>
    ELSE IF contains(lower(text), <<"p","r","o","d","u","c","t">>)
    THEN << <<"p","r","o","d","u","c","t"," ","b","e","n","e","f","i","t","s">>, <<"p","r","o","d","u","c","t"," ","c","h","a","l","l","e","n","g","e","s">> >>
    ELSE IF contains(lower(text), <<"t","e","c","h","n","o","l","o","g","y">>)
    THEN << <<"f","u","t","u","r","e"," ","t","r","e","n","d","s"," ","i","n"," ","t","e","c","h","n","o","l","o","g","y">>, <<"c","h","a","l","l","e","n","g","e","s"," ","i","n"," ","a","d","o","p","t","i","n","g"," ","n","e","w"," ","t","e","c","h","n","o","l","o","g","i","e","s">> >>
    ELSE << <<"g","e","n","e","r","a","l"," ","k","n","o","w","l","e","d","g","e">>, <<"s","p","e","c","i","f","i","c"," ","d","e","t","a","i","l","s">> >>

(***************************************************************************)
(* question_templates: the seven lambdas of generate_questions, by index.  *)
(***************************************************************************)
NumTemplates == 7

TemplatePrefix ==
    << <<"W","h","a","t"," ","i","s"," ","y","o","u","r"," ","o","p","i","n","i","o","n"," ","o","n"," ","'">>,
       <<"W","o","u","l","d"," ","y","o","u"," ","l","i","k","e"," ","t","o"," ","l","e","a","r","n"," ","m","o","r","e"," ","a","b","o","u","t"," ","'">>,
       <<"H","o","w"," ","i","m","p","o","r","t","a","n","t"," ","i","s"," ","'">>,
       <<"W","h","e","r","e"," ","d","o"," ","y","o","u"," ","t","h","i","n","k"," ","'">>,
       <<"O","n"," ","a"," ","s","c","a","l","e"," ","o","f"," ","1","-","5",","," ","h","o","w"," ","w","o","u","l","d"," ","y","o","u"," ","r","a","t","e"," ","y","o","u","r"," ","i","n","t","e","r","e","s","t"," ","i","n"," ","'">>,
       <<"D","o"," ","y","o","u"," ","a","g","r","e","e"," ","w","i","t","h"," ","t","h","e"," ","s","t","a","t","e","m","e","n","t",":"," ","'">>,
       <<"W","h","a","t"," ","c","h","a","l","l","e","n","g","e","s"," ","m","i","g","h","t"," ","y","o","u"," ","f","o","r","e","s","e","e"," ","w","i","t","h"," ","'">> >>

TemplateSuffix ==
    << <<"'","?">>,
       <<"'","?">>,
       <<"'"," ","t","o"," ","y","o","u","?">>,
       <<"'"," ","f","i","t","s"," ","b","e","s","t","?">>,
       <<"'","?">>,
       <<"'"," ","i","s"," ","r","e","v","o","l","u","t","i","o","n","a","r","y","?">>,
       <<"'","?">> >>

TemplateType ==
    <<"opinion", "yes/no", "importance", "fit", "interest", "agreement", "challenges">>

TemplateOptions(k, t) ==
    IF TemplateType[k] = "yes/no" THEN <<"Yes", "No">>
    ELSE generate_dynamic_options(t, TemplateType[k])

question_templates(k, t, id) ==
    [questionId |-> id,
     question   |-> TemplatePrefix[k] \o t \o TemplateSuffix[k],
     options    |-> TemplateOptions(k, t)]

FallbackQuestion(id) ==
    [questionId |-> id,
     question   |-> <<"W","h","a","t"," ","i","s"," ","y","o","u","r"," ","o","v","e","r","a","l","l"," ","i","m","p","r","e","s","s","i","o","n"," ","o","f"," ","t","h","i","s"," ","c","o","n","t","e","n","t","?">>,
     options    |-> <<"Interesting", "Boring", "Confusing">>]

(***************************************************************************)
(* The pages the model reads.  A page is its paragraphs (scrape_content    *)
(* joins them with a blank) and what spaCy's pipeline finds in the joined  *)
(* text: one sentence per paragraph, and the entities with their labels.   *)
(***************************************************************************)
SentA == <<"B","u","y"," ","o","u","r"," ","p","r","o","d","u","c","t">>
SentB == <<"P","l","e","a","s","e"," ","s","e","e"," ","o","u","r"," ","F","A","Q">>
SentC == <<"O","t","h","e","r"," ","t","e","c","h","n","o","l","o","g","y">>

Pages ==
    << \* 1: no paragraph at all
       [paras |-> << >>, ents |-> << >>],
       \* 2: one sentence too short to qualify
       [paras |-> << <<"E","v","e","n","t">> >>, ents |-> << >>],
       \* 3: one qualifying sentence, padded with blanks
       [paras |-> << <<" "," ","N","e","w"," ","T","e","c","h","n","o","l","o","g","y"," ","T","r","e","n","d","s"," ">> >>,
        ents  |-> << [text |-> <<"N","e","w">>, label |-> "DATE"] >>],
       \* 4: legal boilerplate only
       [paras |-> << <<"S","e","e"," ","o","u","r"," ","P","r","i","v","a","c","y"," ","P","o","l","i","c","y",".">>, <<"T","e","r","m","s"," ","a","n","d"," ","C","o","n","d","i","t","i","o","n","s"," ","a","p","p","l","y",".">>,
                     <<"C","A"," ","N","o","t","i","c","e">> >>,
        ents  |-> << >>],
       \* 5: one sentence and two kept entities, one of them found twice
       [paras |-> << <<"A","p","p","l","e"," ","s","e","l","l","s"," ","a"," ","P","r","o","d","u","c","t"," ","i","n"," ","C","a","l","i","f","o","r","n","i","a",".">>, <<"H","i",".">> >>,
        ents  |-> << [text |-> <<"A","p","p","l","e">>, label |-> "ORG"],
                     [text |-> <<"C","a","l","i","f","o","r","n","i","a">>, label |-> "GPE"],
                     [text |-> <<" ","A","p","p","l","e">>, label |-> "ORG"],
                     [text |-> <<"a"," ","P","r","o","d","u","c","t">>, label |-> "CARDINAL"] >>],
       \* 6: twelve sentences, two distinct ones among the first ten that qualify
       [paras |-> << SentA, SentB, <<"H","i",".">>, SentA, SentB, SentA, SentB, SentA, SentB,
                     SentA, SentB, SentC >>,
        ents  |-> << >>],
       \* 7: one boilerplate sentence naming a product and an event
       [paras |-> << <<"P","l","e","a","s","e"," ","s","e","e"," ","o","u","r"," ","P","r","o","d","u","c","t"," ","E","v","e","n","t">> >>, ents |-> << >>] >>

PageText(page) == join(page.paras)

PageTexts == [i \in DOMAIN Pages |-> PageText(Pages[i])]

Contents == Range(PageTexts)

PageOf(text) == CHOOSE i \in DOMAIN Pages : PageTexts[i] = text

\* doc = nlp(content)
nlp(text) ==
    LET page == Pages[PageOf(text)]
    IN  [sents |-> page.paras, ents |-> page.ents]

(***************************************************************************)
(* generate_questions, lines 121-131: the topics before the shuffle.       *)
(***************************************************************************)
MinSentenceLen == 5
MaxSentences == 10
MinTopics == 3

KeptLabels == {"PERSON", "ORG", "GPE", "PRODUCT", "EVENT"}

Strips(xs) == [i \in 1..Len(xs) |-> strip(xs[i])]

Sentences(doc) ==
    SelectSeq(Strips(doc.sents), LAMBDA s : Len(s) > MinSentenceLen)

Entities(doc) ==
    LET kept == SelectSeq(doc.ents, LAMBDA e : e.label \in KeptLabels)
    IN  [i \in 1..Len(kept) |-> strip(kept[i].text)]

FirstN(xs, n) == SubSeq(xs, 1, IF Len(xs) < n THEN Len(xs) ELSE n)

DedupTopics(doc) ==
    SetToList(Range(Entities(doc) \o FirstN(Sentences(doc), MaxSentences)))

\* the fallback topics added for up to MinTopics topics, not for fewer
TopicPoolOffByOne(text) ==
    LET topics == DedupTopics(nlp(text))
    IN  IF Len(topics) <= MinTopics THEN topics \o categorize_fallback(text) ELSE topics

TopicPool(text) ==
    LET topics == DedupTopics(nlp(text))
    IN  IF Len(topics) < MinTopics THEN topics \o categorize_fallback(text) ELSE topics

\* the loop keeping a question without asking filter_questions
SynthesizedUnfiltered(questions, topic, k, id) ==
    Append(questions, question_templates(k, topic, id))

\* one turn of the loop over the topics
Synthesized(questions, topic, k, id) ==
    LET question_data == question_templates(k, topic, id)
    IN  IF filter_questions(question_data) THEN Append(questions, question_data)
        ELSE questions

\* generate_questions without lines 189-194
WithoutFallback(questions, id) == questions

\* the fallback question, when none was generated
WithFallback(questions, id) ==
    IF questions = << >> THEN <<FallbackQuestion(id)>> ELSE questions


(***************************************************************************)
(* generate_questions as a function of the text and of what the random     *)
(* source gives during the call: tape.perm is the shuffle, tape.choice[i]  *)
(* and tape.ids[i] the template and the id drawn for the i-th topic,       *)
(* tape.fallbackId the id drawn for the fallback question.                 *)
(***************************************************************************)
RECURSIVE SynthesizeAll(_, _, _, _)
SynthesizeAll(questions, topics, tape, i) ==
    IF i > Len(topics) THEN questions
    ELSE SynthesizeAll(Synthesized(questions, topics[i], tape.choice[i], tape.ids[i]),
                       topics, tape, i + 1)

generate_questions(text, tape) ==
    LET topics == Permute(TopicPool(text), tape.perm)
    IN  WithFallback(SynthesizeAll(<< >>, topics, tape, 1), tape.fallbackId)

\* the outcomes of the random source that the requests of Spec are run with
TapeSamples ==
    { [perm |-> <<1, 2>>, choice |-> <<2, 5>>, ids |-> <<IdLow, IdHigh>>,
       fallbackId |-> IdLow],
      [perm |-> <<2, 1>>, choice |-> <<7, 4>>, ids |-> <<IdHigh, IdLow>>,
       fallbackId |-> IdHigh] }

Tapes(text) ==
    LET n == Len(TopicPool(text))
    IN  { t \in TapeSamples :
            /\ t.perm \in Shuffles(n)
            /\ Len(t.choice) = n /\ Len(t.ids) = n
            /\ \A i \in 1..n : /\ t.choice[i] \in 1..NumTemplates
                               /\ t.ids[i] \in randint(IdLow, IdHigh)
            /\ t.fallbackId \in randint(IdLow, IdHigh) }

(***************************************************************************)
(* json.dumps / json.loads of a list of questions.  The serialized text is *)
(* a sequence of tokens, each a sequence of strings: a punctuation mark, a *)
(* key, a number in decimal digits ("#" first), a string ("$" first).      *)
(***************************************************************************)
Digits == <<"0","1","2","3","4","5","6","7","8","9">>

RECURSIVE IntToStr(_)
IntToStr(n) ==
    IF n < 10 THEN <<Digits[n + 1]>>
    ELSE IntToStr(n \div 10) \o <<Digits[(n % 10) + 1]>>

DigitValue(c) == (CHOOSE i \in DOMAIN Digits : Digits[i] = c) - 1

RECURSIVE StrToInt(_)
StrToInt(s) ==
    IF s = << >> THEN 0
    ELSE 10 * StrToInt(SubSeq(s, 1, Len(s) - 1)) + DigitValue(s[Len(s)])

TokOptions(options) == [i \in 1..Len(options) |-> <<"$", options[i]>>]

\* the question serialized with the options of its table row only
DumpQuestionFlattened(q) ==
    << <<"{">>, <<"key", "questionId">>, <<"#">> \o IntToStr(q.questionId),
       <<"key", "question">>, <<"$">> \o q.question,
       <<"key", "options">>, <<"[">> >>
    \o TokOptions(FirstN(q.options, 4)) \o << <<"]">>, <<"}">> >>

DumpQuestion(q) ==
    << <<"{">>, <<"key", "questionId">>, <<"#">> \o IntToStr(q.questionId),
       <<"key", "question">>, <<"$">> \o q.question,
       <<"key", "options">>, <<"[">> >>
    \o TokOptions(q.options) \o << <<"]">>, <<"}">> >>

RECURSIVE DumpQuestions(_)
DumpQuestions(qs) ==
    IF qs = << >> THEN << >> ELSE DumpQuestion(Head(qs)) \o DumpQuestions(Tail(qs))

json_dumps(qs) == << <<"[">> >> \o DumpQuestions(qs) \o << <<"]">> >>

\* the option strings from position i up to the closing bracket
RECURSIVE LoadOptions(_, _)
LoadOptions(toks, i) ==
    IF toks[i] = <<"]">> THEN << >> ELSE <<toks[i][2]>> \o LoadOptions(toks, i + 1)

\* the questions from position i (an opening brace or the closing bracket)
RECURSIVE LoadQuestions(_, _)
LoadQuestions(toks, i) ==
    IF toks[i] = <<"]">> THEN << >>
    ELSE LET options == LoadOptions(toks, i + 7)
         IN  << [questionId |-> StrToInt(Tail(toks[i + 2])),
                 question   |-> Tail(toks[i + 4]),
                 options    |-> options] >>
             \o LoadQuestions(toks, i + 7 + Len(options) + 2)

json_loads(toks) == LoadQuestions(toks, 2)

(***************************************************************************)
(* store_questions_in_db: the row written for one question.                *)
(***************************************************************************)
OptionColumns == 4

SqlNull == "<NULL>"

Column(options, j) == IF Len(options) >= j THEN options[j] ELSE SqlNull

Row(u, q) ==
    [url |-> u, question |-> q.question,
     option1 |-> q.options[1], option2 |-> q.options[2],
     option3 |-> Column(q.options, 3), option4 |-> Column(q.options, OptionColumns)]

\* every INSERT committed on its own
RowsKeptWithoutTransaction(rows) == rows

\* what is left in the table of a transaction that never reached conn.commit()
RowsKeptOnFailure(rows) == << >>

\* the exception leaving store_questions_in_db
StoreFailurePropagates == FALSE

\* an exception inside store_questions_in_db ends in its own except clause
StoreFailureSwallowed == TRUE

(***************************************************************************)
(* classify: the requests, the sites they name and the cache keys.         *)
(***************************************************************************)
NumRequests == 3

Requests == 1..NumRequests

UrlBare == <<"a",".","c","o","m">>
UrlFull == <<"h","t","t","p",":","/","/","a",".","c","o","m">>

\* request.get_json(): the JSON value null, or an object with or without "url"
Bodies ==
    { [json |-> "null", url |-> NONE] }
    \cup { [json |-> "object", url |-> u] : u \in {NONE, << >>, UrlBare, UrlFull} }

normalize(u) == IF ~startswith(u, <<"h","t","t","p">>) THEN <<"h","t","t","p",":","/","/">> \o u ELSE u

Keys == {UrlFull}

\* what requests.get and BeautifulSoup give for a url: nothing (timeout, status
\* other than 200, exception), or the page's paragraphs joined
ScrapeOutcomes(u) ==
    {NONE} \cup (IF normalize(u) = UrlFull THEN {PageText(Pages[1]), PageText(Pages[2])}
                 ELSE {})

\* the texts that scrape_content gives, and for each the QuestionSets that
\* generate_questions(text) returns with the random source giving one of Tapes
ScrapedTexts == UNION { ScrapeOutcomes(b.url) : b \in {c \in Bodies : ~Falsy(c.url)} } \ {NONE}

QuestionSets ==
    [text \in ScrapedTexts |-> { generate_questions(text, tape) : tape \in Tapes(text) }]

\* line 64 as "content is None"
ContentIsNone(c) == c = NONE

\* line 64: not content
ContentMissing(c) == Falsy(c)

NoCalls == [fetch |-> 0, generate |-> 0, store |-> 0, cache_set |-> 0]

NoResponse == [status |-> 0, questions |-> << >>, error |-> ""]

Ok(qs) == [status |-> 200, questions |-> qs, error |-> ""]

Error(code, msg) == [status |-> code, questions |-> << >>, error |-> msg]

VARIABLES
    \* generate_questions
    gpc, content, from_url, topics, idx, questions, accepted,
    \* filter_questions
    fpc, question_data, verdict,
    \* redis and the questions table (each row with the request that wrote it)
    cache, table,
    \* classify, per request
    pc, url, rcontent, rquestions, response,
    \* history, per request: the calls made, the outcome of the store and of the
    \* cache lookup, whether redis failed, and the requests that had already
    \* cached a QuestionSet under the same key when this one arrived
    calls, stored, lookup, cacheFailed, late

genVars == <<gpc, content, from_url, topics, idx, questions, accepted>>
filterVars == <<fpc, question_data, verdict>>
svcVars == <<cache, table, pc, url, rcontent, rquestions, response,
             calls, stored, lookup, cacheFailed, late>>
vars == <<genVars, filterVars, svcVars>>

GenIdle ==
    /\ gpc = "idle" /\ content = << >> /\ from_url = TRUE /\ topics = << >>
    /\ idx = 0 /\ questions = << >> /\ accepted = 0

FilterIdle == fpc = "idle" /\ question_data = << >> /\ verdict = FALSE

SvcInit ==
    /\ cache = [k \in Keys |-> << >>]
    /\ table = << >>
    /\ pc = [r \in Requests |-> "idle"]
    /\ url = [r \in Requests |-> UNSET]
    /\ rcontent = [r \in Requests |-> NONE]
    /\ rquestions = [r \in Requests |-> << >>]
    /\ response = [r \in Requests |-> NoResponse]
    /\ calls = [r \in Requests |-> NoCalls]
    /\ stored = [r \in Requests |-> "no"]
    /\ lookup = [r \in Requests |-> "none"]
    /\ cacheFailed = [r \in Requests |-> FALSE]
    /\ late = [r \in Requests |-> {}]

(***************************************************************************)
(* SpecGen: one call of generate_questions.                                *)
(***************************************************************************)
InitGen ==
    /\ gpc = "call"
    /\ content \in Contents
    /\ from_url \in BOOLEAN
    /\ topics = << >> /\ idx = 0 /\ questions = << >> /\ accepted = 0
    /\ FilterIdle /\ SvcInit

\* lines 121-134: extraction, fallback topics, shuffle
ExtractTopics ==
    /\ gpc = "call"
    /\ LET pool == TopicPool(content)
       IN  \E p \in Shuffles(Len(pool)) : topics' = Permute(pool, p)
    /\ idx' = 1
    /\ gpc' = "loop"
    /\ UNCHANGED <<content, from_url, questions, accepted, filterVars, svcVars>>

\* lines 179-183: one topic
Synthesize ==
    /\ gpc = "loop" /\ from_url /\ idx <= Len(topics)
    /\ \E k \in 1..NumTemplates, id \in IdDraws :
          questions' = Synthesized(questions, topics[idx], k, id)
    /\ idx' = idx + 1
    /\ UNCHANGED <<gpc, content, from_url, topics, accepted, filterVars, svcVars>>

\* lines 186-196: fallback question and return
Finish ==
    /\ gpc = "loop" /\ (~from_url \/ idx > Len(topics))
    /\ IF questions = << >>
       THEN \E id \in IdDraws : questions' = WithFallback(questions, id)
       ELSE questions' = WithFallback(questions, IdLow)
    /\ accepted' = Len(questions)
    /\ gpc' = "done"
    /\ UNCHANGED <<content, from_url, topics, idx, filterVars, svcVars>>

NextGen == ExtractTopics \/ Synthesize \/ Finish

SpecGen == InitGen /\ [][NextGen]_vars

(***************************************************************************)
(* SpecFilter: filter_questions applied to one question_data.              *)
(***************************************************************************)
FilterBodies ==
    { << >>, <<"D","o"," ","y","o","u"," ","l","i","k","e"," ","t","h","i","s">>, <<"S","e","e"," ","o","u","r"," ","P","r","i","v","a","c","y"," ","P","o","l","i","c","y">>, <<"R","e","a","d"," ","t","h","e"," ","p","r","i","v","a","c","y"," ","p","o","l","i","c","y">>,
      <<"P","l","e","a","s","e"," ","s","e","e"," ","o","u","r"," ","p","a","g","e">>, <<"T","e","r","m","s"," ","a","n","d"," ","C","o","n","d","i","t","i","o","n","s">>, <<"C","A"," ","N","o","t","i","c","e">>, <<"C","a"," ","n","o","t","i","c","e">> }

FilterEndings == { << >>, <<"?">>, <<".">>, <<"?",".">>, <<".","?">>, <<"?"," ">>, <<"!">> }

FilterOptions ==
    { << >>, <<"Yes">>, <<"Yes", "No">>, <<"1", "2", "3", "4", "5">> }

FilterInputs ==
    { [question |-> b \o e, options |-> o] :
          b \in FilterBodies, e \in FilterEndings, o \in FilterOptions }
    \cup { [question |-> b \o e] : b \in FilterBodies, e \in FilterEndings }
    \cup { [options |-> o] : o \in FilterOptions }

InitFilter ==
    /\ fpc = "call"
    /\ question_data \in FilterInputs
    /\ verdict = FALSE
    /\ GenIdle /\ SvcInit

Validate ==
    /\ fpc = "call"
    /\ verdict' = filter_questions(question_data)
    /\ fpc' = "done"
    /\ UNCHANGED <<question_data, genVars, svcVars>>

NextFilter == Validate

SpecFilter == InitFilter /\ [][NextFilter]_vars

(***************************************************************************)
(* Spec: the requests to /classify, each thread of the server running one  *)
(* of them, over the shared cache and the shared table.                    *)
(***************************************************************************)
Init == GenIdle /\ FilterIdle /\ SvcInit

Wrote(w) == pc[w] = "done" /\ response[w].status = 200 /\ calls[w].generate = 1

Finished(r, resp) ==
    /\ pc' = [pc EXCEPT ![r] = "done"]
    /\ response' = [response EXCEPT ![r] = resp]

\* lines 47-55.  Requests are numbered in the order they arrive.
Receive(r) ==
    /\ pc[r] = "idle"
    /\ \A q \in Requests : q < r => pc[q] # "idle"
    /\ \E body \in Bodies :
          IF body.json = "null"
          THEN \* data.get raises; line 79 answers
               /\ Finished(r, Error(500, "exception"))
               /\ UNCHANGED <<url, late>>
          ELSE IF Falsy(body.url)
          THEN /\ Finished(r, Error(400, "No URL provided"))
               /\ url' = [url EXCEPT ![r] = body.url]
               /\ UNCHANGED late
          ELSE /\ url' = [url EXCEPT ![r] = normalize(body.url)]
               /\ late' = [late EXCEPT ![r] =
                             {w \in Requests : Wrote(w) /\ url[w] = normalize(body.url)}]
               /\ pc' = [pc EXCEPT ![r] = "cache_get"]
               /\ UNCHANGED response
    /\ UNCHANGED <<cache, table, rcontent, rquestions, calls, stored, lookup,
                   cacheFailed, genVars, filterVars>>

\* lines 58-60, redis answering
CacheGet(r) ==
    /\ pc[r] = "cache_get"
    /\ IF cache[url[r]] # << >>
       THEN /\ Finished(r, Ok(json_loads(cache[url[r]])))
            /\ lookup' = [lookup EXCEPT ![r] = "hit"]
       ELSE /\ pc' = [pc EXCEPT ![r] = "fetch"]
            /\ lookup' = [lookup EXCEPT ![r] = "miss"]
            /\ UNCHANGED response
    /\ UNCHANGED <<cache, table, url, rcontent, rquestions, calls, stored,
                   cacheFailed, late, genVars, filterVars>>

\* line 58 raising redis.exceptions.RedisError; line 76 answers
CacheGetFails(r) ==
    /\ pc[r] = "cache_get"
    /\ Finished(r, Error(500, "Cache service failure"))
    /\ cacheFailed' = [cacheFailed EXCEPT ![r] = TRUE]
    /\ UNCHANGED <<cache, table, url, rcontent, rquestions, calls, stored,
                   lookup, late, genVars, filterVars>>

\* the rows of the first n questions
Rows(u, qs, n) == [i \in 1..n |-> Row(u, qs[i])]

\* the rows as the table holds them, with the request that wrote them
Written(r, rows) == [i \in 1..Len(rows) |-> [by |-> r, row |-> rows[i]]]

\* lines 298-299: an exception raised inside store_questions_in_db after `rows`
\* were inserted
StoreFails(r, rows) ==
    /\ table' = table \o Written(r, RowsKeptOnFailure(rows))
    /\ stored' = [stored EXCEPT ![r] = "failed"]
    /\ IF StoreFailureSwallowed
       THEN pc' = [pc EXCEPT ![r] = "cache_set"] /\ UNCHANGED response
       ELSE Finished(r, Error(500, "exception"))

\* line 71, store_questions_in_db: the INSERTs run in the transaction of the call's
\* own connection, which conn.commit() makes visible at once.  An exception comes
\* after k INSERTs: from the connection, the cursor, CREATE TABLE or the first
\* INSERT (k = 0), from a later INSERT, or from the commit (k = all).
Store(r, qs) ==
    \/ /\ table' = table \o Written(r, Rows(url[r], qs, Len(qs)))
       /\ stored' = [stored EXCEPT ![r] = "ok"]
       /\ pc' = [pc EXCEPT ![r] = "cache_set"]
       /\ UNCHANGED response
    \/ \E k \in 0..Len(qs) : StoreFails(r, Rows(url[r], qs, k))

\* lines 63-71 after a miss: scrape_content, generate_questions and
\* store_questions_in_db.  They read and write the request's own locals only,
\* apart from the rows, which no request reads and which appear together at the
\* commit; for the other requests the three calls are one step.
Pipeline(r) ==
    /\ pc[r] = "fetch"
    /\ \E c \in ScrapeOutcomes(url[r]) :
          /\ rcontent' = [rcontent EXCEPT ![r] = c]
          /\ IF ContentMissing(c)
             THEN /\ Finished(r, Error(400, "Failed to retrieve content from URL"))
                  /\ calls' = [calls EXCEPT ![r].fetch = 1]
                  /\ UNCHANGED <<rquestions, table, stored>>
             ELSE \E qs \in QuestionSets[c] :
                     /\ rquestions' = [rquestions EXCEPT ![r] = qs]
                     /\ calls' = [calls EXCEPT ![r].fetch = 1, ![r].generate = 1,
                                                ![r].store = 1]
                     /\ Store(r, qs)
    /\ UNCHANGED <<cache, url, lookup, cacheFailed, late, genVars, filterVars>>

\* lines 72-74
CacheSet(r) ==
    /\ pc[r] = "cache_set"
    /\ cache' = [cache EXCEPT ![url[r]] = json_dumps(rquestions[r])]
    /\ calls' = [calls EXCEPT ![r].cache_set = 1]
    /\ Finished(r, Ok(rquestions[r]))
    /\ UNCHANGED <<table, url, rcontent, rquestions, stored, lookup,
                   cacheFailed, late, genVars, filterVars>>

\* line 72 raising redis.exceptions.RedisError; line 76 answers
CacheSetFails(r) ==
    /\ pc[r] = "cache_set"
    /\ Finished(r, Error(500, "Cache service failure"))
    /\ cacheFailed' = [cacheFailed EXCEPT ![r] = TRUE]
    /\ UNCHANGED <<cache, table, url, rcontent, rquestions, calls, stored,
                   lookup, late, genVars, filterVars>>

Next ==
    \E r \in Requests :
        \/ Receive(r)
        \/ CacheGet(r)
        \/ CacheGetFails(r)
        \/ Pipeline(r)
        \/ CacheSet(r)
        \/ CacheSetFails(r)

Spec == Init /\ [][Next]_vars

(***************************************************************************)
(* Properties of generate_questions (SpecGen).                             *)
(***************************************************************************)
FallbackText == <<"W","h","a","t"," ","i","s"," ","y","o","u","r"," ","o","v","e","r","a","l","l"," ","i","m","p","r","e","s","s","i","o","n"," ","o","f"," ","t","h","i","s"," ","c","o","n","t","e","n","t","?">>

Occurrences(xs, x) == Cardinality({i \in DOMAIN xs : xs[i] = x})

\* C1: the list generate_questions returns is never empty; when the loop accepted
\* no question it is exactly the one hardcoded fallback question, and when the
\* loop accepted at least one question the fallback question is not added.
C1_NeverEmptyFallbackOnlyWhenNoneAccepted ==
    gpc = "done" =>
        /\ Len(questions) >= 1
        /\ accepted = 0 =>
              /\ Len(questions) = 1
              /\ questions[1].question = FallbackText
              /\ questions[1].options = <<"Interesting", "Boring", "Confusing">>
        /\ accepted > 0 =>
              /\ Len(questions) = accepted
              /\ \A i \in DOMAIN questions : questions[i].question # FallbackText

\* a page of three boilerplate sentences: every synthesized question was rejected
C1_Witness ==
    /\ gpc = "done" /\ from_url /\ accepted = 0
    /\ Len(topics) >= MinTopics
    /\ Len(questions) = 1

\* C2: every question of the returned list satisfies filter_questions, the
\* fallback question (appended without being validated) included.
C2_ReturnedQuestionsAreValid ==
    gpc = "done" => \A i \in DOMAIN questions : filter_questions(questions[i])

\* the fallback question returned after the loop ran over topics and kept nothing
C2_Witness ==
    /\ gpc = "done" /\ from_url /\ accepted = 0 /\ topics # << >>
    /\ questions = <<FallbackQuestion(IdHigh)>>
    /\ filter_questions(questions[1])

\* C3: every question has between 2 and 4 options, so that every option has one
\* of the 4 option columns of the questions table.
C3_OptionsFitTheColumns ==
    \A i \in DOMAIN questions :
        /\ Len(questions[i].options) >= 2
        /\ Len(questions[i].options) <= 4

\* C4, as amended: every question of the returned list has an id in 1000..9999,
\* both ends included.
C4_IdInClosedRange ==
    gpc = "done" =>
        \A i \in DOMAIN questions :
            questions[i].questionId >= 1000 /\ questions[i].questionId <= 9999

\* C4, as claimed: every id is in the half-open range [1000, 9999).
C4_IdInHalfOpenRange ==
    gpc = "done" =>
        \A i \in DOMAIN questions :
            questions[i].questionId >= 1000 /\ questions[i].questionId < 9999

\* a returned list holding both ends of the range
C4_Witness ==
    /\ gpc = "done"
    /\ \E i, j \in DOMAIN questions :
          questions[i].questionId = 9999 /\ questions[j].questionId = 1000

\* the deduplicated entities and first ten qualifying sentences of each page
C10_RawTopicsOf ==
    [i \in DOMAIN Pages |->
        LET doc == nlp(PageTexts[i])
        IN  Range(Entities(doc)) \cup Range(FirstN(Sentences(doc), 10))]

\* the two phrases the claim names for a text
C10_Phrases(text) ==
    IF contains(lower(text), <<"e","v","e","n","t">>)
    THEN << <<"k","e","y"," ","f","a","c","t","s"," ","a","b","o","u","t"," ","t","h","i","s"," ","e","v","e","n","t">>, <<"i","m","p","a","c","t","s"," ","o","f"," ","t","h","i","s"," ","e","v","e","n","t"," ","o","n"," ","t","h","e"," ","i","n","d","u","s","t","r","y">> >>
    ELSE IF contains(lower(text), <<"p","r","o","d","u","c","t">>)
    THEN << <<"p","r","o","d","u","c","t"," ","b","e","n","e","f","i","t","s">>, <<"p","r","o","d","u","c","t"," ","c","h","a","l","l","e","n","g","e","s">> >>
    ELSE IF contains(lower(text), <<"t","e","c","h","n","o","l","o","g","y">>)
    THEN << <<"f","u","t","u","r","e"," ","t","r","e","n","d","s"," ","i","n"," ","t","e","c","h","n","o","l","o","g","y">>, <<"c","h","a","l","l","e","n","g","e","s"," ","i","n"," ","a","d","o","p","t","i","n","g"," ","n","e","w"," ","t","e","c","h","n","o","l","o","g","i","e","s">> >>
    ELSE << <<"g","e","n","e","r","a","l"," ","k","n","o","w","l","e","d","g","e">>, <<"s","p","e","c","i","f","i","c"," ","d","e","t","a","i","l","s">> >>

\* the phrases the claim has added for each page
C10_AddedOf ==
    [i \in DOMAIN Pages |->
        IF Cardinality(C10_RawTopicsOf[i]) < 3 THEN C10_Phrases(PageTexts[i]) ELSE << >>]

C10_RawTopics == C10_RawTopicsOf[PageOf(content)]

\* C10: the topics used for synthesis are the deduplicated raw topics, once each,
\* plus, exactly when there are fewer than 3 of them, the 2 fallback phrases of the
\* first keyword among event, product, technology that the text contains in any
\* case (the generic pair if none); for the empty text the topics are the generic
\* pair and the result holds at least 2 synthesized questions or is the fallback
\* question alone.
C10_FallbackTopics ==
    gpc \in {"loop", "done"} =>
        LET raw   == C10_RawTopics
            added == C10_AddedOf[PageOf(content)]
        IN  /\ Len(topics) = Cardinality(raw) + Len(added)
            /\ \A x \in raw \cup Range(added) :
                  Occurrences(topics, x) = (IF x \in raw THEN 1 ELSE 0) + Occurrences(added, x)
            /\ content = << >> =>
                  /\ Len(topics) = 2
                  /\ Range(topics) = {<<"g","e","n","e","r","a","l"," ","k","n","o","w","l","e","d","g","e">>, <<"s","p","e","c","i","f","i","c"," ","d","e","t","a","i","l","s">>}
                  /\ gpc = "done" =>
                        \/ accepted >= 2
                        \/ Len(questions) = 1 /\ questions[1].question = FallbackText

\* twelve sentences with two distinct ones among the first ten: the phrases are added
C10_Witness ==
    /\ gpc = "done"
    /\ Len(Pages[PageOf(content)].paras) > MaxSentences + 1
    /\ Cardinality(C10_RawTopics) = 2
    /\ Len(topics) = 4
    /\ Occurrences(topics, <<"p","r","o","d","u","c","t"," ","b","e","n","e","f","i","t","s">>) = 1

(***************************************************************************)
(* Properties of filter_questions (SpecFilter).                            *)
(***************************************************************************)
C5_Text == IF "question" \in DOMAIN question_data THEN question_data.question ELSE << >>

C5_Options == IF "options" \in DOMAIN question_data THEN question_data.options ELSE << >>

C5_LastChar == IF C5_Text = << >> THEN "" ELSE C5_Text[Len(C5_Text)]

C5_Rejected ==
    \/ C5_Text = << >> \/ C5_Options = << >>
    \/ Len(C5_Options) < 2
    \/ C5_LastChar = "." \/ C5_LastChar # "?"
    \/ contains(C5_Text, <<"T","e","r","m","s"," ","a","n","d"," ","C","o","n","d","i","t","i","o","n","s">>) \/ contains(C5_Text, <<"P","r","i","v","a","c","y"," ","P","o","l","i","c","y">>)
    \/ contains(C5_Text, <<"C","A"," ","N","o","t","i","c","e">>) \/ contains(C5_Text, <<"s","e","e"," ","o","u","r">>)

\* C5: filter_questions answers false exactly when the text or the options are
\* empty, there are fewer than 2 options, the text ends with "." or does not end
\* with "?", or the text contains one of the four boilerplate phrases; so it
\* rejects every text ending in "." and every text containing "Privacy Policy".
C5_FilterRejectsExactly ==
    fpc = "done" =>
        /\ verdict = ~C5_Rejected
        /\ C5_LastChar = "." => ~verdict
        /\ contains(C5_Text, <<"P","r","i","v","a","c","y"," ","P","o","l","i","c","y">>) => ~verdict

\* a well-formed question rejected for the phrase "see our" alone
C5_Witness ==
    /\ fpc = "done" /\ ~verdict
    /\ C5_Text = <<"P","l","e","a","s","e"," ","s","e","e"," ","o","u","r"," ","p","a","g","e","?">>
    /\ Len(C5_Options) = 2

(***************************************************************************)
(* Properties of classify (Spec).                                          *)
(***************************************************************************)
RowsBy(r) ==
    LET mine == SelectSeq(table, LAMBDA e : e.by = r)
    IN  [i \in 1..Len(mine) |-> mine[i].row]

\* the rows are the questions qs written for url u, one row each, in order
RowsAre(rows, u, qs) ==
    /\ Len(rows) = Len(qs)
    /\ \A i \in DOMAIN rows :
          /\ rows[i].url = u
          /\ rows[i].question = qs[i].question
          /\ rows[i].option1 = qs[i].options[1]
          /\ rows[i].option2 = qs[i].options[2]
          /\ Len(qs[i].options) >= 3 => rows[i].option3 = qs[i].options[3]
          /\ Len(qs[i].options) >= 4 => rows[i].option4 = qs[i].options[4]

\* C6, as amended: the pipeline runs only on a cache miss, and a request that
\* arrives after a QuestionSet was cached under its key and whose cache read does
\* not fail answers, without fetch, generate_questions or store_questions_in_db,
\* with the complete QuestionSet that one of the successful requests for that key
\* cached (the entry the cache holds when it is read).
C6_LateRequestsAnswerFromCache ==
    \A r \in Requests :
        /\ calls[r] # NoCalls => lookup[r] = "miss"
        /\ (pc[r] = "done" /\ late[r] # {} /\ ~cacheFailed[r]) =>
              /\ lookup[r] = "hit"
              /\ calls[r] = NoCalls
              /\ response[r].status = 200
              /\ \E w \in Requests \ {r} :
                    /\ Wrote(w) /\ url[w] = url[r]
                    /\ response[r].questions = rquestions[w]

\* C6, as claimed: a request that arrives after a request for the same key has
\* generated, stored and cached a QuestionSet returns exactly that QuestionSet,
\* without fetch, generate_questions or store_questions_in_db.
C6_LateRequestsReturnTheFirstSet ==
    \A r \in Requests : \A w \in late[r] :
        (pc[r] = "done" /\ ~cacheFailed[r] /\ stored[w] = "ok") =>
            /\ response[r].status = 200
            /\ response[r].questions = rquestions[w]
            /\ calls[r] = NoCalls

\* a hit that returns the QuestionSet of an earlier request
C6_Witness ==
    \E r \in Requests : \E w \in late[r] :
        /\ pc[r] = "done" /\ lookup[r] = "hit"
        /\ response[r] = Ok(rquestions[w])
        /\ Len(rquestions[w]) = 2

C8_State ==
    \A r \in Requests :
        pc[r] = "done" =>
            /\ (stored[r] = "failed" /\ ~cacheFailed[r]) =>
                  /\ response[r].status = 200
                  /\ response[r].questions = rquestions[r]
                  /\ calls[r].cache_set = 1
            /\ cacheFailed[r] =>
                  /\ response[r].status = 500
                  /\ response[r].questions = << >>

C8_Step ==
    \A r \in Requests :
        calls'[r].cache_set # calls[r].cache_set =>
            cache'[url[r]] = json_dumps(rquestions[r])

\* C8: a failure of store_questions_in_db is not propagated: unless the cache
\* fails, the request writes its QuestionSet to the cache and returns it with
\* status 200; a failure of the cache (get or set) is answered with status 500
\* and no questions.
C8_StoreFailureSwallowedCacheFailureSurfaced ==
    []C8_State /\ [][C8_Step]_vars

\* a request whose store failed and that still cached and returned its QuestionSet
C8_Witness ==
    \E r \in Requests :
        /\ pc[r] = "done" /\ stored[r] = "failed"
        /\ response[r] = Ok(rquestions[r])
        /\ cache[url[r]] = json_dumps(rquestions[r])

\* C9: under every interleaving, the cache entry of a key is absent or the
\* complete QuestionSet of one request for that key; a request that generated a
\* QuestionSet and succeeds returns that one; and the rows a request has in the
\* table are the rows of its own QuestionSet, all of them once it has committed.
C9_NoMixingBetweenRequests ==
    /\ \A k \in Keys :
          \/ cache[k] = << >>
          \/ LET cached == json_loads(cache[k])
             IN  \E r \in Requests :
                    /\ url[r] = k /\ calls[r].cache_set = 1
                    /\ cached = rquestions[r]
    /\ \A r \in Requests :
          LET rows == RowsBy(r)
          IN  /\ Wrote(r) => response[r].questions = rquestions[r]
              /\ rows = << >> \/ RowsAre(rows, url[r], rquestions[r])
              /\ stored[r] = "ok" => RowsAre(rows, url[r], rquestions[r])

\* two requests for one url that both missed, generated different QuestionSets,
\* stored them and cached them, the second overwriting the first
C9_Witness ==
    \E a, b \in Requests :
        /\ a # b /\ url[a] = url[b]
        /\ lookup[a] = "miss" /\ lookup[b] = "miss"
        /\ rquestions[a] # rquestions[b]
        /\ stored[a] = "ok" /\ stored[b] = "ok"
        /\ Wrote(a) /\ Wrote(b)
        /\ table[1].by = a /\ table[Len(table)].by = b
        /\ json_loads(cache[url[a]]) = rquestions[a]

=============================================================================
